---------------------------- MODULE Spec2Model ----------------------------
(***************************************************************************)
(* A model of pkg/chunkenc/memchunk.go: the in-memory compressed log chunk *)
(* (MemChunk), its head block, its binary container format and the        *)
(* per-block streaming iterator (bufferedIterator).                        *)
(*                                                                         *)
(* Bytes are naturals in 0..255, a byte string is a sequence of bytes, a   *)
(* log line is a byte string and a timestamp is an integer (nanoseconds).  *)
(***************************************************************************)
EXTENDS Integers, Sequences, FiniteSets, TLC

(***************************************************************************)
(* Bounds of the model and the input domains the actions draw from.        *)
(***************************************************************************)
\* The number of entries a chunk accepts before the model stops appending.
MaxAppends == 3

\* Timestamps offered to Append: a negative one, the zero that collides with
\* the head's "mint == 0" sentinel, and one whose varint takes two bytes.
Timestamps == {-1, 0, 64}

\* Lines offered to Append: the empty line and a two byte line.
Lines == {<< >>, <<97, 98>>}

\* blockSize values given to NewMemChunk: with the lines above the first cuts
\* on every non-empty line, the second on every second one.
BlockSizes == {2, 3}

Entries == [t : Timestamps, s : Lines]

(***************************************************************************)
(* Constants of the program.                                               *)
(***************************************************************************)
blocksPerChunk == 10
maxLineLength == 1073741824
magicNumber == 19850602
chunkFormatV1 == 1
chunkFormatV2 == 2
\* Encoding tags (the Encoding enumeration: EncNone = 0, EncGZIP = 1).
EncNone == 0
EncGZIP == 1
Encodings == {EncNone, EncGZIP}

ErrNil == "nil"
ErrOutOfOrder == "ErrOutOfOrder"
ErrInvalidChecksum == "ErrInvalidChecksum"


(***************************************************************************)
(* Byte-string helpers.                                                    *)
(***************************************************************************)
RECURSIVE Concat(_)
\* The concatenation of a sequence of byte strings.
Concat(ss) == IF ss = << >> THEN << >> ELSE Head(ss) \o Concat(Tail(ss))

RECURSIVE SumSeq(_)
SumSeq(ns) == IF ns = << >> THEN 0 ELSE Head(ns) + SumSeq(Tail(ns))

Reverse(s) == [i \in 1..Len(s) |-> s[Len(s) + 1 - i]]

\* b[from:to] of Go, with 0-based offsets: the bytes from+1 .. to.
Slice(b, from, to) == SubSeq(b, from + 1, to)

(***************************************************************************)
(* encoding/binary: varints as headBlock.serialise and the block metadata  *)
(* write them.                                                             *)
(***************************************************************************)
RECURSIVE PutUvarint(_)
\* binary.PutUvarint: 7 bits per byte, least significant group first, the
\* high bit set on every byte but the last.
PutUvarint(x) ==
    IF x < 128 THEN <<x>> ELSE <<(x % 128) + 128>> \o PutUvarint(x \div 128)

\* binary.PutVarint: zig-zag, then PutUvarint.
PutVarint(x) == PutUvarint(IF x >= 0 THEN 2 * x ELSE -2 * x - 1)

\* binary.BigEndian.PutUint32, for values below 2^31.
BE32(x) == << (x \div 16777216) % 256, (x \div 65536) % 256,
              (x \div 256) % 256, x % 256 >>

\* binary.BigEndian.PutUint64, for values below 2^31.
BE64(x) == <<0, 0, 0, 0>> \o BE32(x)

\* crc32.Checksum(b, castagnoliTable), abstracted to a position-weighted sum
\* of 24 bits: like the CRC it is a function of the exact bytes and changes
\* whenever one or two single bits of payload and stored sum are flipped.
RECURSIVE WeightedSum(_, _)
WeightedSum(b, i) ==
    IF i > Len(b) THEN 0 ELSE (2 * i + 1) * (b[i] + 1) + WeightedSum(b, i + 1)

Checksum(b) == WeightedSum(b, 1) % 16777216

(***************************************************************************)
(* The compression adapter (WriterPool / ReaderPool per Encoding).  EncNone*)
(* passes the bytes through; every other encoding frames them: a magic     *)
(* byte, the payload, and a trailer holding the payload length mod 256.    *)
(***************************************************************************)
GzipMagic == 31

Compress(enc, data) ==
    IF enc = EncNone THEN data
    ELSE <<GzipMagic>> \o data \o <<Len(data) % 256>>

\* What a pooled reader over b delivers: the bytes it yields and whether it
\* ends them with a read error (corrupt framing) instead of io.EOF.
Decompress(enc, b) ==
    IF enc = EncNone THEN [data |-> b, fails |-> FALSE]
    ELSE IF Len(b) < 2 \/ b[1] # GzipMagic
         THEN [data |-> << >>, fails |-> TRUE]
         ELSE LET d == SubSeq(b, 2, Len(b) - 1)
              IN [data |-> d, fails |-> b[Len(b)] # Len(d) % 256]

(***************************************************************************)
(* headBlock                                                               *)
(***************************************************************************)
EmptyHead == [entries |-> << >>, size |-> 0, mint |-> 0, maxt |-> 0]

isEmpty(hb) == Len(hb.entries) = 0

\* headBlock.append, seen as a bug: the order check dropped.
headAppendUnchecked(hb, ts, line) ==
    [hb |-> [entries |-> Append(hb.entries, [t |-> ts, s |-> line]),
             size |-> hb.size + Len(line),
             mint |-> IF hb.mint = 0 \/ hb.mint > ts THEN ts ELSE hb.mint,
             maxt |-> ts],
     err |-> ErrNil]

\* headBlock.append
headAppend(hb, ts, line) ==
    IF ~isEmpty(hb) /\ hb.maxt > ts
    THEN [hb |-> hb, err |-> ErrOutOfOrder]
    ELSE [hb |-> [entries |-> Append(hb.entries, [t |-> ts, s |-> line]),
                  size |-> hb.size + Len(line),
                  mint |-> IF hb.mint = 0 \/ hb.mint > ts THEN ts ELSE hb.mint,
                  maxt |-> ts],
          err |-> ErrNil]

\* One entry as headBlock.serialise writes it into inBuf.
EncodeEntry(e) == PutVarint(e.t) \o PutUvarint(Len(e.s)) \o e.s

\* headBlock.serialise: the entries, encoded and compressed.
serialise(hb, enc) ==
    Compress(enc, Concat([i \in 1..Len(hb.entries) |-> EncodeEntry(hb.entries[i])]))

(***************************************************************************)
(* MemChunk                                                                *)
(***************************************************************************)
NewMemChunk(enc, blockSize, targetSize) ==
    [blockSize |-> blockSize, targetSize |-> targetSize,
     blocks |-> << >>, cutBlockSize |-> 0,
     head |-> EmptyHead,
     format |-> chunkFormatV2, encoding |-> enc]

\* MemChunk.cut, seen as a bug: the block does not take over the head's size.
cutLosingSize(ch) ==
    IF isEmpty(ch.head) THEN ch
    ELSE [ch EXCEPT
            !.blocks = Append(@, [b |-> serialise(ch.head, ch.encoding),
                                  numEntries |-> Len(ch.head.entries),
                                  mint |-> ch.head.mint,
                                  maxt |-> ch.head.maxt,
                                  offset |-> 0,
                                  uncompressedSize |-> 0]),
            !.cutBlockSize = @ + Len(serialise(ch.head, ch.encoding)),
            !.head = [entries |-> << >>, size |-> 0, mint |-> 0,
                      maxt |-> ch.head.maxt]]

\* MemChunk.cut: the head becomes a new block; head.maxt is left as it is.
cut(ch) ==
    IF isEmpty(ch.head) THEN ch
    ELSE LET b == serialise(ch.head, ch.encoding)
         IN [ch EXCEPT
               !.blocks = Append(@, [b |-> b,
                                     numEntries |-> Len(ch.head.entries),
                                     mint |-> ch.head.mint,
                                     maxt |-> ch.head.maxt,
                                     offset |-> 0,
                                     uncompressedSize |-> ch.head.size]),
               !.cutBlockSize = @ + Len(b),
               !.head = [entries |-> << >>, size |-> 0, mint |-> 0,
                         maxt |-> ch.head.maxt]]

\* MemChunk.Append, seen as a bug: the head is not compared with the last
\* cut block, so the first entry after a cut may go back in time.
ChunkAppendNoBlockCheck(ch, e) ==
    LET r == headAppend(ch.head, e.t, e.s)
    IN IF r.err # ErrNil
       THEN [c |-> ch, err |-> r.err]
       ELSE IF r.hb.size >= ch.blockSize
            THEN [c |-> cut([ch EXCEPT !.head = r.hb]), err |-> ErrNil]
            ELSE [c |-> [ch EXCEPT !.head = r.hb], err |-> ErrNil]

\* MemChunk.Append, seen as a bug: an entry as old as the last cut block's
\* maxt is refused too (>= for >).
ChunkAppendStrict(ch, e) ==
    IF isEmpty(ch.head) /\ Len(ch.blocks) > 0
       /\ ch.blocks[Len(ch.blocks)].maxt >= e.t
    THEN [c |-> ch, err |-> ErrOutOfOrder]
    ELSE ChunkAppendNoBlockCheck(ch, e)

\* MemChunk.Append, seen as a bug: the head is cut only once it is larger
\* than blockSize (> for >=).
ChunkAppendCutLate(ch, e) ==
    IF isEmpty(ch.head) /\ Len(ch.blocks) > 0
       /\ ch.blocks[Len(ch.blocks)].maxt > e.t
    THEN [c |-> ch, err |-> ErrOutOfOrder]
    ELSE LET r == headAppend(ch.head, e.t, e.s)
         IN IF r.err # ErrNil
            THEN [c |-> ch, err |-> r.err]
            ELSE IF r.hb.size > ch.blockSize
                 THEN [c |-> cut([ch EXCEPT !.head = r.hb]), err |-> ErrNil]
                 ELSE [c |-> [ch EXCEPT !.head = r.hb], err |-> ErrNil]

\* MemChunk.Append
ChunkAppend(ch, e) ==
    IF isEmpty(ch.head) /\ Len(ch.blocks) > 0
       /\ ch.blocks[Len(ch.blocks)].maxt > e.t
    THEN [c |-> ch, err |-> ErrOutOfOrder]
    ELSE LET r == headAppend(ch.head, e.t, e.s)
         IN IF r.err # ErrNil
            THEN [c |-> ch, err |-> r.err]
            ELSE LET c1 == [ch EXCEPT !.head = r.hb]
                 IN IF c1.head.size >= c1.blockSize
                    THEN [c |-> cut(c1), err |-> ErrNil]
                    ELSE [c |-> c1, err |-> ErrNil]

\* MemChunk.Size
Size(ch) ==
    SumSeq([i \in 1..Len(ch.blocks) |-> ch.blocks[i].numEntries])
    + (IF ~isEmpty(ch.head) THEN Len(ch.head.entries) ELSE 0)

\* MemChunk.UncompressedSize
UncompressedSize(ch) ==
    (IF ~isEmpty(ch.head) THEN ch.head.size ELSE 0)
    + SumSeq([i \in 1..Len(ch.blocks) |-> ch.blocks[i].uncompressedSize])

\* MemChunk.CompressedSize
CompressedSize(ch) ==
    (IF ~isEmpty(ch.head) THEN ch.head.size ELSE 0) + ch.cutBlockSize

\* MemChunk.SpaceFor
SpaceFor(ch, e) ==
    IF ch.targetSize > 0
    THEN ch.cutBlockSize + ch.head.size + Len(e.s) < ch.targetSize
    ELSE Len(ch.blocks) < blocksPerChunk

\* MemChunk.Bounds: the two nanosecond values handed to time.Unix.
Bounds(ch) ==
    LET from0 == IF Len(ch.blocks) > 0 THEN ch.blocks[1].mint ELSE 0
        to0 == IF Len(ch.blocks) > 0 THEN ch.blocks[Len(ch.blocks)].maxt ELSE 0
    IN IF ~isEmpty(ch.head)
       THEN [from |-> IF from0 = 0 \/ from0 > ch.head.mint
                      THEN ch.head.mint ELSE from0,
             to |-> IF to0 < ch.head.maxt THEN ch.head.maxt ELSE to0]
       ELSE [from |-> from0, to |-> to0]

(***************************************************************************)
(* MemChunk.Bytes: the container format.                                   *)
(***************************************************************************)
\* magicNumber, format and, for V2, the encoding byte.
ChunkHeader(ch) ==
    BE32(magicNumber) \o <<ch.format>>
    \o (IF ch.format = chunkFormatV2 THEN <<ch.encoding>> ELSE << >>)

RECURSIVE BlockOffset(_, _, _)
RECURSIVE BlockOffsetNoCRC(_, _, _)
\* The offset of block i, seen as a bug: the 4 checksum bytes after every
\* payload are not counted.
BlockOffsetNoCRC(blocks, hdrLen, i) ==
    IF i = 1 THEN hdrLen
    ELSE BlockOffsetNoCRC(blocks, hdrLen, i - 1) + Len(blocks[i - 1].b)

\* The offset Bytes gives block i: the header's length plus, for every block
\* before it, the payload and its 4 checksum bytes.
BlockOffset(blocks, hdrLen, i) ==
    IF i = 1 THEN hdrLen
    ELSE BlockOffset(blocks, hdrLen, i - 1) + Len(blocks[i - 1].b) + 4

\* The blocks with the offset Bytes stores in each (c.blocks[i].offset = offset).
WithOffsets(blocks, hdrLen) ==
    [i \in 1..Len(blocks) |->
        [blocks[i] EXCEPT !.offset = BlockOffset(blocks, hdrLen, i)]]

\* One block as Bytes writes it: the payload, then its checksum.
BlockBytes(blk) == blk.b \o BE32(Checksum(blk.b))

\* The metadata of one block.
BlockMeta(blk) ==
    PutUvarint(blk.numEntries) \o PutVarint(blk.mint) \o PutVarint(blk.maxt)
    \o PutUvarint(blk.offset) \o PutUvarint(Len(blk.b))

\* The metadata section without its checksum: the number of blocks, then
\* every block's metadata.
MetaBytes(blocks) ==
    PutUvarint(Len(blocks))
    \o Concat([i \in 1..Len(blocks) |-> BlockMeta(blocks[i])])

\* MemChunk.Bytes: the chunk after the call (head cut, offsets stored) and
\* the bytes returned.
ChunkBytes(ch) ==
    LET c1 == cut(ch)
        hdr == ChunkHeader(c1)
        blks == WithOffsets(c1.blocks, Len(hdr))
        body == Concat([i \in 1..Len(blks) |-> BlockBytes(blks[i])])
        metasOffset == Len(hdr) + Len(body)
        metas == MetaBytes(blks)
    IN [c |-> [c1 EXCEPT !.blocks = blks],
        out |-> hdr \o body \o metas \o BE32(Checksum(metas))
                \o BE64(metasOffset)]

(***************************************************************************)
(* Decoding.  Integers of 2^31 and more are represented by Huge: they are  *)
(* only ever compared with lengths and limits far below it.                *)
(***************************************************************************)
Huge == 2147483647

RECURSIVE UvarintFrom(_, _, _, _)
\* binary.Uvarint / binary.ReadUvarint over b, from byte i on; mult is
\* 128^(i-1) and acc the value of the bytes before i.  n is the number of
\* bytes used, 0 when b ends inside the varint (v is then the value of the
\* bytes read so far, which ReadUvarint returns beside the error).
UvarintFrom(b, i, mult, acc) ==
    IF i > Len(b) THEN [v |-> acc, n |-> 0]
    ELSE LET g == b[i] % 128
             big == acc = Huge \/ (i > 5 /\ g > 0) \/ (i = 5 /\ g > 7)
             acc1 == IF big THEN Huge
                     ELSE IF i > 5 THEN acc ELSE acc + g * mult
         IN IF b[i] < 128 THEN [v |-> acc1, n |-> i]
            ELSE UvarintFrom(b, i + 1, IF i >= 5 THEN mult ELSE mult * 128, acc1)

Uvarint(b) == UvarintFrom(b, 1, 1, 0)

\* The zig-zag decoding of binary.Varint.
UnZigZag(ux) ==
    IF ux = Huge THEN Huge
    ELSE IF ux % 2 = 0 THEN ux \div 2 ELSE -((ux + 1) \div 2)

Varint(b) == LET r == Uvarint(b) IN [v |-> UnZigZag(r.v), n |-> r.n]

\* binary.BigEndian.Uint32 of the 4 bytes of b from offset off (0-based).
Uint32At(b, off) ==
    IF b[off + 1] >= 128 THEN Huge
    ELSE b[off + 1] * 16777216 + b[off + 2] * 65536
         + b[off + 3] * 256 + b[off + 4]

\* binary.BigEndian.Uint64 of the 8 bytes of b from offset off (0-based).
Uint64At(b, off) ==
    IF \E k \in 1..4 : b[off + k] # 0 THEN Huge ELSE Uint32At(b, off + 4)

(***************************************************************************)
(* decbuf: a read cursor with a sticky error.  Once a read fails every     *)
(* later read returns zero and err() returns the error.                    *)
(***************************************************************************)
ErrInvalidSize == "ErrInvalidSize"

decbuf(b) == [b |-> b, e |-> ErrNil]

dbBe32(d) ==
    IF d.e # ErrNil THEN [v |-> 0, d |-> d]
    ELSE IF Len(d.b) < 4 THEN [v |-> 0, d |-> [d EXCEPT !.e = ErrInvalidSize]]
    ELSE [v |-> Uint32At(d.b, 0), d |-> [d EXCEPT !.b = SubSeq(@, 5, Len(@))]]

dbByte(d) ==
    IF d.e # ErrNil THEN [v |-> 0, d |-> d]
    ELSE IF Len(d.b) < 1 THEN [v |-> 0, d |-> [d EXCEPT !.e = ErrInvalidSize]]
    ELSE [v |-> d.b[1], d |-> [d EXCEPT !.b = Tail(@)]]

dbUvarint(d) ==
    IF d.e # ErrNil THEN [v |-> 0, d |-> d]
    ELSE LET r == Uvarint(d.b)
         IN IF r.n < 1 THEN [v |-> 0, d |-> [d EXCEPT !.e = ErrInvalidSize]]
            ELSE [v |-> r.v, d |-> [d EXCEPT !.b = SubSeq(@, r.n + 1, Len(@))]]

dbVarint64(d) ==
    IF d.e # ErrNil THEN [v |-> 0, d |-> d]
    ELSE LET r == Varint(d.b)
         IN IF r.n < 1 THEN [v |-> 0, d |-> [d EXCEPT !.e = ErrInvalidSize]]
            ELSE [v |-> r.v, d |-> [d EXCEPT !.b = SubSeq(@, r.n + 1, Len(@))]]

dbCrc32(d) == Checksum(d.b)

(***************************************************************************)
(* NewByteChunk.  A result is an error and, when the error is nil, a chunk.*)
(* "panic" is the run-time panic of a slice expression or index out of     *)
(* range (the input slice is taken to have no spare capacity).             *)
(***************************************************************************)
NoChunk == [none |-> TRUE]
ErrPanic == "panic"
ErrHeader == "verifying header"
ErrMagic == "invalid magic number"
ErrVersion == "invalid version"
ErrEncoding == "verifying encoding"
ErrBlockMeta == "decoding block meta"

Failed(e) == [err |-> e, chunk |-> NoChunk]

RECURSIVE ReadFields(_, _, _)
\* The decoder reads one field per kind ("u": uvarint, "v": varint64), the
\* values collected in acc, without looking at its error in between.
ReadFields(d, kinds, acc) ==
    IF kinds = << >> THEN [vals |-> acc, d |-> d]
    ELSE LET r == IF Head(kinds) = "u" THEN dbUvarint(d) ELSE dbVarint64(d)
         IN ReadFields(r.d, Tail(kinds), Append(acc, r.v))

\* The five metadata fields of one block: numEntries, mint, maxt, offset
\* and the length l.
ReadBlockMeta(d) == ReadFields(d, <<"u", "v", "v", "u", "u">>, << >>)

ParsePanic == [err |-> ErrPanic, blocks |-> << >>, cutBlockSize |-> 0]

\* The block NewByteChunk builds, seen as a bug: mint and maxt change places.
ParsedBlockSwapped(b, vals) ==
    [b |-> Slice(b, vals[4], vals[4] + vals[5]), numEntries |-> vals[1],
     mint |-> vals[3], maxt |-> vals[2], offset |-> vals[4],
     uncompressedSize |-> 0]

\* The block that NewByteChunk builds from the fields vals.
ParsedBlock(b, vals) ==
    [b |-> Slice(b, vals[4], vals[4] + vals[5]), numEntries |-> vals[1],
     mint |-> vals[2], maxt |-> vals[3], offset |-> vals[4],
     uncompressedSize |-> 0]

RECURSIVE ParseBlocks(_, _, _, _, _)

\* One iteration of the block loop, seen as a bug: the block is kept
\* whatever its checksum.
ParseBlockNoCRC(b, m, left, blocks, cbs) ==
    IF m.vals[4] > Len(b) \/ m.vals[5] > Len(b) - m.vals[4]
       \/ Len(b) - m.vals[4] - m.vals[5] < 4
    THEN ParsePanic
    ELSE IF m.d.e # ErrNil
    THEN [err |-> ErrBlockMeta, blocks |-> << >>, cutBlockSize |-> 0]
    ELSE ParseBlocks(b, m.d, left - 1,
                     Append(blocks, ParsedBlock(b, m.vals)), cbs + m.vals[5])

\* One iteration of the block loop, seen as a bug: the length of a block
\* that is skipped is added to cutBlockSize all the same.
ParseBlockCountingSkipped(b, m, left, blocks, cbs) ==
    IF m.vals[4] > Len(b) \/ m.vals[5] > Len(b) - m.vals[4]
       \/ Len(b) - m.vals[4] - m.vals[5] < 4
    THEN ParsePanic
    ELSE IF Uint32At(b, m.vals[4] + m.vals[5])
            # Checksum(Slice(b, m.vals[4], m.vals[4] + m.vals[5]))
    THEN ParseBlocks(b, m.d, left - 1, blocks, cbs + m.vals[5])
    ELSE IF m.d.e # ErrNil
    THEN [err |-> ErrBlockMeta, blocks |-> << >>, cutBlockSize |-> 0]
    ELSE ParseBlocks(b, m.d, left - 1,
                     Append(blocks, ParsedBlock(b, m.vals)), cbs + m.vals[5])

\* One iteration of the block loop of NewByteChunk, the fields m read: the
\* slice b[offset : offset+l] and the 4 checksum bytes after it must lie in
\* b; a block whose checksum differs is skipped (continue), before the
\* decoder's error is looked at.
ParseBlock(b, m, left, blocks, cbs) ==
    IF m.vals[4] > Len(b) \/ m.vals[5] > Len(b) - m.vals[4]
       \/ Len(b) - m.vals[4] - m.vals[5] < 4
    THEN ParsePanic
    ELSE IF Uint32At(b, m.vals[4] + m.vals[5])
            # Checksum(Slice(b, m.vals[4], m.vals[4] + m.vals[5]))
    THEN ParseBlocks(b, m.d, left - 1, blocks, cbs)
    ELSE IF m.d.e # ErrNil
    THEN [err |-> ErrBlockMeta, blocks |-> << >>, cutBlockSize |-> 0]
    ELSE ParseBlocks(b, m.d, left - 1,
                     Append(blocks, ParsedBlock(b, m.vals)), cbs + m.vals[5])

\* The block loop of NewByteChunk (for i := 0; i < num; i++) with `left`
\* iterations to go.  Once the decoder has failed every further iteration
\* reads zeros, slices b[0:0] and compares the magic number with the
\* checksum of no bytes: when these differ the rest of the loop skips every
\* block, and is cut short here.
ParseBlocks(b, d, left, blocks, cbs) ==
    IF left = 0 \/ (d.e # ErrNil /\ Uint32At(b, 0) # Checksum(<< >>))
    THEN [err |-> ErrNil, blocks |-> blocks, cutBlockSize |-> cbs]
    ELSE ParseBlock(b, ReadBlockMeta(d), left, blocks, cbs)

\* The end of NewByteChunk: the chunk bc with the blocks the loop kept.
ParsedChunk(bc, r) ==
    IF r.err # ErrNil THEN Failed(r.err)
    ELSE [err |-> ErrNil,
          chunk |-> [bc EXCEPT !.blocks = r.blocks,
                               !.cutBlockSize = r.cutBlockSize]]

\* NewByteChunk from the read of the number of blocks on (num is what
\* db.uvarint() returned): make([]block, 0, num), then the block loop.
ReadBlocks(b, bc, num) ==
    IF num.v = Huge THEN Failed(ErrPanic)
    ELSE ParsedChunk(bc, ParseBlocks(b, num.d, num.v, << >>, 0))

\* The comparison of the metadata checksum, seen as a bug: left out.
CheckMetasNoCRC(b, bc, mb) == ReadBlocks(b, bc, dbUvarint(decbuf(mb)))

\* NewByteChunk from the comparison of the metadata checksum on: mb is the
\* metadata section b[metasOffset : len(b)-12], expCRC the 4 bytes after it.
CheckMetas(b, bc, mb) ==
    IF Uint32At(b, Len(b) - 12) # dbCrc32(decbuf(mb))
    THEN Failed(ErrInvalidChecksum)
    ELSE ReadBlocks(b, bc, dbUvarint(decbuf(mb)))

\* mb := b[metasOffset : len(b)-12]
SliceMetas(b, bc, metasOffset) ==
    IF metasOffset > Len(b) - 12 THEN Failed(ErrPanic)
    ELSE CheckMetas(b, bc, Slice(b, metasOffset, Len(b) - 12))

\* The second half of NewByteChunk: the metadata section, from the trailing
\* metasOffset on, given the chunk bc the header has filled in.
ParseMetas(b, bc) ==
    IF Len(b) < 12 THEN Failed(ErrPanic)
    ELSE SliceMetas(b, bc, Uint64At(b, Len(b) - 8))

\* The chunk NewByteChunk starts from.
ByteChunk0(blockSize, targetSize) ==
    [blockSize |-> blockSize, targetSize |-> targetSize,
     blocks |-> << >>, cutBlockSize |-> 0, head |-> EmptyHead,
     format |-> 0, encoding |-> 0]

\* NewByteChunk for format V2, enc being what db.byte() returned.
ParseV2(b, bc, enc) ==
    IF enc.d.e # ErrNil THEN Failed(ErrEncoding)
    ELSE ParseMetas(b, [bc EXCEPT !.format = chunkFormatV2,
                                  !.encoding = enc.v])

\* NewByteChunk after m, version := db.be32(), db.byte().
ParseHeader(b, bc, m, version) ==
    IF version.d.e # ErrNil THEN Failed(ErrHeader)
    ELSE IF m.v # magicNumber THEN Failed(ErrMagic)
    ELSE IF version.v = chunkFormatV1
         THEN ParseMetas(b, [bc EXCEPT !.format = chunkFormatV1,
                                       !.encoding = EncGZIP])
    ELSE IF version.v = chunkFormatV2
         THEN ParseV2(b, bc, dbByte(version.d))
    ELSE Failed(ErrVersion)

\* NewByteChunk
NewByteChunk(b, blockSize, targetSize) ==
    ParseHeader(b, ByteChunk0(blockSize, targetSize),
                dbBe32(decbuf(b)), dbByte(dbBe32(decbuf(b)).d))

(***************************************************************************)
(* bufferedIterator.moveNext, as a function of the decompressed stream rd  *)
(* (its bytes, and whether the reader ends them with an error rather than  *)
(* io.EOF) and of the number pos of bytes consumed so far.                 *)
(*                                                                         *)
(* kind is "entry" (ok), "end" (not ok; err is the error stored in si.err, *)
(* nil for a graceful end) or "hang" (the read loop never ends).  bufSize  *)
(* is the line size the line buffer was sized for, -1 when moveNext        *)
(* returned before it touched the buffer.  strict tells how the build's    *)
(* encoding/binary reports a stream that ends inside a varint: as          *)
(* io.ErrUnexpectedEOF (strict) or as io.EOF.                              *)
(***************************************************************************)
ErrRead == "read error"
ErrUnexpectedEOF == "unexpected EOF"
ErrLineTooLong == "line too long"

EndOfBlock(e, bufSize) ==
    [kind |-> "end", err |-> e, ts |-> 0, line |-> << >>, n |-> 0,
     bufSize |-> bufSize]

\* The tail of moveNext, from the read of the line on: rest is what the
\* stream still holds, used the bytes the two varints took.
ReadLine(rd, rest, ts, used, lineSize) ==
    IF Len(rest) >= lineSize
    THEN [kind |-> "entry", err |-> ErrNil, ts |-> ts,
          line |-> SubSeq(rest, 1, lineSize), n |-> used + lineSize,
          bufSize |-> lineSize]
    ELSE IF rd.fails THEN EndOfBlock(ErrRead, lineSize)
    ELSE [kind |-> "hang", err |-> ErrNil, ts |-> ts, line |-> << >>,
          n |-> 0, bufSize |-> lineSize]

\* moveNext
moveNext(rd, pos, strict) ==
    LET rest == SubSeq(rd.data, pos + 1, Len(rd.data))
        tsr == Varint(rest)
    IN IF tsr.n = 0
       THEN \* ReadVarint failed: io.EOF ends the block without an error.
            IF rd.fails THEN EndOfBlock(ErrRead, -1)
            ELSE IF rest # << >> /\ strict THEN EndOfBlock(ErrUnexpectedEOF, -1)
            ELSE EndOfBlock(ErrNil, -1)
       ELSE LET rest2 == SubSeq(rest, tsr.n + 1, Len(rest))
                lr == Uvarint(rest2)
            IN IF lr.n = 0 /\ rd.fails THEN EndOfBlock(ErrRead, -1)
               ELSE IF lr.n = 0 /\ rest2 # << >> /\ strict
                    THEN EndOfBlock(ErrUnexpectedEOF, -1)
               ELSE \* io.EOF from ReadUvarint is not returned: l is what
                    \* was decoded, 0 when the stream ended after the ts.
                    LET lineSize == lr.v
                        used == IF lr.n = 0 THEN Len(rest) ELSE tsr.n + lr.n
                        rest3 == SubSeq(rest, used + 1, Len(rest))
                    IN IF lineSize >= maxLineLength
                       THEN EndOfBlock(ErrLineTooLong, -1)
                       ELSE ReadLine(rd, rest3, tsr.v, used, lineSize)

(***************************************************************************)
(* Range iteration.  A pipeline is given by the set `drop` of the lines it *)
(* filters out; it keeps every other line and the labels unchanged, so the *)
(* head's entries form a single stream.  An iterator is given by what it   *)
(* yields: the sequence of its entries, and whether it hangs after them.   *)
(***************************************************************************)
FORWARD == "FORWARD"
BACKWARD == "BACKWARD"

NoopIterator == [entries |-> << >>, hang |-> FALSE]

Keep(entries, drop) == SelectSeq(entries, LAMBDA e : e.s \notin drop)

RECURSIVE DrainBlock(_, _, _)
\* bufferedIterator.Next called until it returns false: the entries read from
\* the decompressed stream rd, from position pos on.
DrainBlock(rd, pos, acc) ==
    LET r == moveNext(rd, pos, TRUE)
    IN IF r.kind = "entry"
       THEN DrainBlock(rd, pos + r.n, Append(acc, [t |-> r.ts, s |-> r.line]))
       ELSE [entries |-> acc, hang |-> r.kind = "hang"]

\* encBlock.Iterator with entryBufferedIterator.Next: the entries of the
\* block the pipeline keeps.
BlockIterator(enc, blk, drop) ==
    IF Len(blk.b) = 0 THEN NoopIterator
    ELSE LET d == DrainBlock(Decompress(enc, blk.b), 0, << >>)
         IN [entries |-> Keep(d.entries, drop), hang |-> d.hang]

\* iter.NewStreamsIterator over one stream: its entries in the order they
\* are stored, whatever the direction.
StreamsIterator(entries, direction) == [entries |-> entries, hang |-> FALSE]

\* headBlock.iterator
headIterator(hb, direction, mint, maxt, drop) ==
    IF isEmpty(hb) \/ (maxt < hb.mint \/ hb.maxt < mint) THEN NoopIterator
    ELSE LET kept == Keep(hb.entries, drop)
         IN IF kept = << >> THEN NoopIterator
            ELSE StreamsIterator(kept, direction)

RECURSIVE NonOverlappingIterator(_)
\* iter.NewNonOverlappingIterator: the sub-iterators one after the other; one
\* that hangs is never left.
NonOverlappingIterator(its) ==
    IF its = << >> THEN NoopIterator
    ELSE IF Head(its).hang THEN Head(its)
    ELSE LET rest == NonOverlappingIterator(Tail(its))
         IN [entries |-> Head(its).entries \o rest.entries, hang |-> rest.hang]

\* iter.NewTimeRangedIterator: the entries clipped to [mint, maxt].
TimeRangedIterator(it, mint, maxt) ==
    [entries |-> SelectSeq(it.entries, LAMBDA e : mint <= e.t /\ e.t <= maxt),
     hang |-> it.hang]

\* iter.NewEntryReversedIter: the iterator drained into memory and reversed.
EntryReversedIter(it) ==
    [entries |-> IF it.hang THEN << >> ELSE Reverse(it.entries),
     hang |-> it.hang]

\* The sub-iterators MemChunk.Iterator collects: one per block that
\* intersects [mint, maxt], then the head's when the head is not empty.
SubIterators(ch, mint, maxt, direction, drop) ==
    LET hit == SelectSeq(ch.blocks,
                         LAMBDA b : ~(maxt < b.mint \/ b.maxt < mint))
    IN [i \in 1..Len(hit) |-> BlockIterator(ch.encoding, hit[i], drop)]
       \o (IF ~isEmpty(ch.head)
           THEN <<headIterator(ch.head, direction, mint, maxt, drop)>>
           ELSE << >>)

\* MemChunk.Iterator, seen as a bug: BACKWARD reverses every sub-iterator but
\* not their order.
IteratorKeepingOrder(ch, mint, maxt, direction, drop) ==
    LET its == SubIterators(ch, mint, maxt, direction, drop)
    IN IF direction = FORWARD
       THEN TimeRangedIterator(NonOverlappingIterator(its), mint, maxt)
       ELSE NonOverlappingIterator(
                [i \in 1..Len(its) |->
                    EntryReversedIter(TimeRangedIterator(its[i], mint, maxt))])

\* MemChunk.Iterator
Iterator(ch, mint, maxt, direction, drop) ==
    LET its == SubIterators(ch, mint, maxt, direction, drop)
    IN IF direction = FORWARD
       THEN TimeRangedIterator(NonOverlappingIterator(its), mint, maxt)
       ELSE NonOverlappingIterator(Reverse(
                [i \in 1..Len(its) |->
                    EntryReversedIter(TimeRangedIterator(its[i], mint, maxt))]))

(***************************************************************************)
(* The state.                                                              *)
(***************************************************************************)
VARIABLES
    c,          \* the MemChunk being built
    appended,   \* history: the entries Append has accepted, in order
    err,        \* the error the last chunk operation returned
    out,        \* the bytes the last Bytes() returned, as they are now
    flipped,    \* the positions of out that were damaged after Bytes()
    bc,         \* what NewByteChunk(out) returned, NotParsed before the call
    si,         \* the bufferedIterator
    pool,       \* history: per pool, how often each lease was returned
    ret,        \* what the last call on the iterator returned
    firstClose, \* history: what the first Close() of the iterator returned
    readers,    \* the goroutines that read a sealed chunk, one record each
    it          \* the iterator Iterator() returned, with what it has yielded

chunkVars == <<c, appended, err, out, flipped, bc>>
iterVars == <<si, pool, ret, firstClose>>
vars ==
    <<c, appended, err, out, flipped, bc, si, pool, ret, firstClose, readers, it>>

NotParsed == [err |-> "not parsed", chunk |-> NoChunk]

\* An iterator nothing has been done with, over no bytes.
IdleIterator ==
    [enc |-> EncNone, origBytes |-> << >>, rd |-> [data |-> << >>, fails |-> FALSE],
     pos |-> 0, reader |-> 0, bufReader |-> 0, buf |-> 0, bufCap |-> 0,
     err |-> ErrNil, closed |-> FALSE, currTs |-> 0, currLine |-> << >>,
     hung |-> FALSE, strict |-> FALSE]

NoLeases == [reader |-> << >>, bufReader |-> << >>, buf |-> << >>]
NoCall == [op |-> "none", val |-> "none"]

IterIdle ==
    /\ si = IdleIterator
    /\ pool = NoLeases
    /\ ret = NoCall
    /\ firstClose = "none"

\* No goroutine reads the chunk; Iterator() has not been called.
NoReaders == << >>
NotOpen == [open |-> FALSE]

(***************************************************************************)
(* Building, serializing and parsing a chunk.                              *)
(***************************************************************************)
Init ==
    /\ c \in {NewMemChunk(enc, bs, 0) : enc \in Encodings, bs \in BlockSizes}
    /\ appended = << >>
    /\ err = ErrNil
    /\ out = << >>
    /\ flipped = {}
    /\ bc = NotParsed
    /\ IterIdle
    /\ readers = NoReaders
    /\ it = NotOpen

\* The bytes Bytes() returned are a copy: what happens to them (Corrupt,
\* DamageBlocks, Parse) leaves the chunk as it is, and the operations on the
\* chunk are taken from the states in which the copy is untouched.
Untouched == flipped = {} /\ bc = NotParsed

\* c.Append(e)
AppendEntry(e) ==
    /\ Untouched
    /\ Len(appended) < MaxAppends
    /\ LET r == ChunkAppend(c, e)
       IN /\ c' = r.c
          /\ err' = r.err
          /\ appended' = IF r.err = ErrNil THEN Append(appended, e) ELSE appended
    /\ out' = << >>
    /\ flipped' = {}
    /\ bc' = NotParsed
    /\ UNCHANGED <<iterVars, readers, it>>

\* c.Close()
Close ==
    /\ Untouched
    /\ c' = cut(c)
    /\ err' = ErrNil
    /\ out' = << >>
    /\ flipped' = {}
    /\ bc' = NotParsed
    /\ UNCHANGED <<appended, si, pool, ret, firstClose, readers, it>>

\* c.Bytes()
Bytes ==
    /\ Untouched
    /\ LET r == ChunkBytes(c)
       IN /\ c' = r.c
          /\ out' = r.out
    /\ err' = ErrNil
    /\ flipped' = {}
    /\ bc' = NotParsed
    /\ UNCHANGED <<appended, si, pool, ret, firstClose, readers, it>>

\* The byte with its lowest bit flipped.
FlipBit(x) == IF x % 2 = 0 THEN x + 1 ELSE x - 1

\* The stored bytes are damaged: one bit of byte i flips.
Corrupt(i) ==
    /\ out # << >>
    /\ bc = NotParsed
    /\ flipped = {}
    /\ out' = [out EXCEPT ![i] = FlipBit(@)]
    /\ flipped' = {i}
    /\ UNCHANGED <<c, appended, err, bc, si, pool, ret, firstClose, readers, it>>

\* The stored bytes are damaged in several blocks at once: one bit flips in
\* the first payload byte of every block in S (c.blocks[k].offset is where
\* Bytes() has put block k).
DamageBlocks(S) ==
    /\ out # << >>
    /\ bc = NotParsed
    /\ flipped = {}
    /\ Cardinality(S) >= 2
    /\ LET at == {c.blocks[k].offset + 1 : k \in S}
       IN /\ out' = [i \in 1..Len(out) |->
                        IF i \in at THEN FlipBit(out[i]) ELSE out[i]]
          /\ flipped' = at
    /\ UNCHANGED <<c, appended, err, bc, si, pool, ret, firstClose, readers, it>>

\* The bytes b with the last k bytes of their metadata section gone, the
\* checksum of the section made to fit and the trailing offset kept.
TruncatedMetas(b, k) ==
    SubSeq(b, 1, Len(b) - 12 - k)
    \o BE32(Checksum(Slice(b, Uint64At(b, Len(b) - 8), Len(b) - 12 - k)))
    \o BE64(Uint64At(b, Len(b) - 8))

\* The stored bytes come back with a metadata section that ends early and a
\* checksum that matches it.
TruncateMetas(k) ==
    /\ out # << >>
    /\ bc = NotParsed
    /\ flipped = {}
    /\ k <= Len(out) - 12 - Uint64At(out, Len(out) - 8)
    /\ out' = TruncatedMetas(out, k)
    /\ flipped' = (Len(out) - 12 - k + 1)..Len(out)
    /\ UNCHANGED <<c, appended, err, bc, si, pool, ret, firstClose, readers, it>>

\* NewByteChunk(out, blockSize, targetSize)
Parse ==
    /\ out # << >>
    /\ bc = NotParsed
    /\ bc' = NewByteChunk(out, c.blockSize, c.targetSize)
    /\ UNCHANGED <<c, appended, err, out, flipped, si, pool, ret, firstClose, readers, it>>

Next ==
    \/ \E e \in Entries : AppendEntry(e)
    \/ Close
    \/ Bytes
    \/ \E i \in 1..Len(out) : Corrupt(i)
    \/ \E S \in SUBSET (1..Len(c.blocks)) : DamageBlocks(S)
    \/ \E k \in 1..Len(out) : TruncateMetas(k)
    \/ Parse

Spec == Init /\ [][Next]_vars

(***************************************************************************)
(* What the properties below are stated with.                              *)
(***************************************************************************)
\* The bounds of the query windows tried: every timestamp offered to
\* Append, the values next to them and values outside them.
WindowTimes == {-2, -1, 0, 1, 64, 65}

\* The pipelines tried: each drops one set of lines.
Pipelines == {{}, {<< >>}, {<<97, 98>>}}

Last(s) == s[Len(s)]

MinOf(S) == CHOOSE x \in S : \A y \in S : x <= y
MaxOf(S) == CHOOSE x \in S : \A y \in S : x >= y

TimesOf(entries) == {entries[i].t : i \in 1..Len(entries)}

NonDecreasing(entries) ==
    \A i \in 1..Len(entries) - 1 : entries[i].t <= entries[i + 1].t

\* Whether Append(e) comes after an accepted entry with a later timestamp.
ComesLate(e) == \E i \in 1..Len(appended) : appended[i].t > e.t

\* The entries of block k of the chunk being built: the numEntries accepted
\* entries after those of the blocks before it.
EntriesBefore(k) == SumSeq([j \in 1..k - 1 |-> c.blocks[j].numEntries])
EntriesOfBlock(k) ==
    SubSeq(appended, EntriesBefore(k) + 1,
           EntriesBefore(k) + c.blocks[k].numEntries)

\* out is what Bytes() returned, and it has been parsed.
Parsed == bc # NotParsed
ParsedIntact == Parsed /\ flipped = {}

(***************************************************************************)
(* C1.  Round trip: the entries appended to a new chunk, with whatever     *)
(* cuts blockSize and Close made, are what the chunk parsed from Bytes()   *)
(* yields, in order and content, when it is iterated FORWARD with a        *)
(* pipeline that keeps every line over a window that covers every          *)
(* timestamp.                                                              *)
(***************************************************************************)
C1_RoundTrip ==
    ParsedIntact =>
        /\ bc.err = ErrNil
        /\ \A from, through \in WindowTimes :
              (\A t \in TimesOf(appended) : from <= t /\ t < through)
              => Iterator(bc.chunk, from, through, FORWARD, {})
                 = [entries |-> appended, hang |-> FALSE]

\* A chunk of two blocks or more, holding MaxAppends entries, was parsed back.
C1_Witness ==
    /\ ParsedIntact
    /\ bc.err = ErrNil
    /\ Len(bc.chunk.blocks) >= 2
    /\ Len(appended) = MaxAppends

(***************************************************************************)
(* C2.  An Append whose timestamp is smaller than that of an entry the     *)
(* chunk has accepted (in the head or in a cut block) returns              *)
(* ErrOutOfOrder and changes no field of the chunk.                        *)
(***************************************************************************)
C2_OutOfOrderRejected ==
    [][\A e \in Entries :
          (AppendEntry(e) /\ ComesLate(e))
          => (err' = ErrOutOfOrder /\ c' = c)]_vars

\* An Append was refused because of an entry that is in a cut block.
C2_Witness ==
    /\ err = ErrOutOfOrder
    /\ isEmpty(c.head)
    /\ Len(c.blocks) > 0
    /\ Len(appended) > 0

(***************************************************************************)
(* C3.  Append(e) returns ErrOutOfOrder exactly when the head is empty,    *)
(* there are blocks and e.t < maxt of the last block, or the head is not   *)
(* empty and e.t < head.maxt.  In every other state (an equal timestamp,   *)
(* the first append) it returns nil and e is added to the head: e is the   *)
(* head's last entry, or the head with e was cut into the newest block.    *)
(***************************************************************************)
OutOfOrderState(e) ==
    \/ isEmpty(c.head) /\ Len(c.blocks) > 0 /\ e.t < Last(c.blocks).maxt
    \/ ~isEmpty(c.head) /\ e.t < c.head.maxt

AddedToHead(e) ==
    LET hb == Append(c.head.entries, e)
    IN \/ /\ c'.head.entries = hb
          /\ c'.blocks = c.blocks
       \/ /\ c'.head.entries = << >>
          /\ Len(c'.blocks) = Len(c.blocks) + 1
          /\ Last(c'.blocks).numEntries = Len(hb)
          /\ Last(c'.blocks).b
             = serialise([entries |-> hb, size |-> 0, mint |-> 0, maxt |-> 0],
                         c.encoding)

C3_OutOfOrderIff ==
    [][\A e \in Entries :
          AppendEntry(e)
          => /\ (err' = ErrOutOfOrder) <=> OutOfOrderState(e)
             /\ ~OutOfOrderState(e)
                => (err' = ErrNil /\ appended' = Append(appended, e)
                    /\ AddedToHead(e))]_vars

\* An entry with the timestamp of the last cut block's maxt was accepted.
C3_Witness ==
    /\ err = ErrNil
    /\ Len(c.blocks) > 0
    /\ ~isEmpty(c.head)
    /\ c.head.entries[1].t = Last(c.blocks).maxt

(***************************************************************************)
(* C4.  Block ordering: blocks[i].maxt <= blocks[i+1].mint for every i.    *)
(***************************************************************************)
C4_BlockOrdering ==
    \A i \in 1..Len(c.blocks) - 1 : c.blocks[i].maxt <= c.blocks[i + 1].mint

\* Three blocks, the timestamps rising from the first to the last.
C4_Witness ==
    /\ Len(c.blocks) >= 3
    /\ c.blocks[1].maxt < c.blocks[3].mint

(***************************************************************************)
(* C5.  Metadata corruption is fatal: given bytes with a valid magic and   *)
(* version whose stored metadata checksum (the 4 bytes before the trailing *)
(* 8) differs from the checksum of the metadata bytes                      *)
(* [metasOffset, len-12), NewByteChunk returns ErrInvalidChecksum and no   *)
(* chunk.                                                                  *)
(***************************************************************************)
ValidHeader(b) ==
    /\ Len(b) >= 6
    /\ Uint32At(b, 0) = magicNumber
    /\ b[5] \in {chunkFormatV1, chunkFormatV2}

MetasInRange(b) == Len(b) >= 12 /\ Uint64At(b, Len(b) - 8) <= Len(b) - 12

MetasChecksumDiffers(b) ==
    Uint32At(b, Len(b) - 12)
    # Checksum(Slice(b, Uint64At(b, Len(b) - 8), Len(b) - 12))

C5_MetadataCorruptionFatal ==
    (Parsed /\ ValidHeader(out) /\ MetasInRange(out)
        /\ MetasChecksumDiffers(out))
    => bc = [err |-> ErrInvalidChecksum, chunk |-> NoChunk]

\* Where Bytes() has put the metadata section of the chunk (0-based).
MetasOffset ==
    Len(ChunkHeader(c))
    + SumSeq([k \in 1..Len(c.blocks) |-> Len(c.blocks[k].b) + 4])

\* A bit of the metadata section of a chunk of two blocks was flipped, and
\* the parse of these bytes has ended.
C5_Witness ==
    /\ Parsed
    /\ Len(c.blocks) >= 2
    /\ \E i \in flipped : MetasOffset < i /\ i <= Len(out) - 12
    /\ MetasChecksumDiffers(out)

(***************************************************************************)
(* C6.  Block corruption is isolated: with the header and the metadata     *)
(* intact, NewByteChunk returns no error and a chunk that holds exactly    *)
(* the blocks whose stored checksum matches their payload, in their order  *)
(* and with their numEntries, mint and maxt; iterating it yields the       *)
(* entries of these blocks only.                                           *)
(***************************************************************************)
\* The damage lies in the block section: after the header, before the
\* metadata.
OnlyBlocksDamaged ==
    \A i \in flipped : Len(ChunkHeader(c)) < i /\ i <= MetasOffset

\* The stored checksum of block k of the serialized chunk matches its payload.
ChecksumMatches(k) ==
    Uint32At(out, c.blocks[k].offset + Len(c.blocks[k].b))
    = Checksum(Slice(out, c.blocks[k].offset,
                     c.blocks[k].offset + Len(c.blocks[k].b)))

\* The indices of the blocks whose checksum matches, in increasing order.
GoodBlocks ==
    SelectSeq([k \in 1..Len(c.blocks) |-> k], LAMBDA k : ChecksumMatches(k))

C6_BlockCorruptionIsolated ==
    (Parsed /\ OnlyBlocksDamaged) =>
        /\ bc.err = ErrNil
        /\ Len(bc.chunk.blocks) = Len(GoodBlocks)
        /\ \A n \in 1..Len(GoodBlocks) :
              LET was == c.blocks[GoodBlocks[n]]
                  is == bc.chunk.blocks[n]
              IN /\ is.b = was.b
                 /\ is.numEntries = was.numEntries
                 /\ is.mint = was.mint
                 /\ is.maxt = was.maxt
        /\ Iterator(bc.chunk, -2, 65, FORWARD, {})
           = [entries |-> Concat([n \in 1..Len(GoodBlocks) |->
                                     EntriesOfBlock(GoodBlocks[n])]),
              hang |-> FALSE]

\* Of three blocks the first and the last were damaged and dropped, and the
\* one between them was kept.
C6_Witness ==
    /\ Parsed
    /\ OnlyBlocksDamaged
    /\ Len(c.blocks) = 3
    /\ GoodBlocks = <<2>>
    /\ bc.err = ErrNil
    /\ Len(bc.chunk.blocks) = 1

Mints ==
    {c.blocks[k].mint : k \in 1..Len(c.blocks)}
    \cup (IF isEmpty(c.head) THEN {} ELSE {c.head.mint})

Maxts ==
    {c.blocks[k].maxt : k \in 1..Len(c.blocks)}
    \cup (IF isEmpty(c.head) THEN {} ELSE {c.head.maxt})

C10_BoundsMinMax ==
    Size(c) > 0 =>
        /\ Bounds(c).from = MinOf(Mints)
        /\ Bounds(c).to = MaxOf(Maxts)

(***************************************************************************)
(* C11.  Metadata underflow is reported: when the header and the metadata  *)
(* checksum of the parsed bytes are valid and the metadata section ends    *)
(* before the fields of the declared number of blocks are read,            *)
(* NewByteChunk returns an error and no chunk.                             *)
(***************************************************************************)
RECURSIVE ReadAllMetas(_, _)
\* The decoder after the metadata of `left` blocks was read from it.
ReadAllMetas(d, left) ==
    IF left = 0 \/ d.e # ErrNil THEN d
    ELSE ReadAllMetas(ReadBlockMeta(d).d, left - 1)

\* Reading the number of blocks and then that many blocks' fields from the
\* metadata section of b underflows.
MetasUnderflow(b) ==
    LET num == dbUvarint(decbuf(Slice(b, Uint64At(b, Len(b) - 8), Len(b) - 12)))
    IN ReadAllMetas(num.d, num.v).e # ErrNil

C11_MetadataUnderflowReported ==
    (Parsed /\ ValidHeader(out) /\ MetasInRange(out)
        /\ ~MetasChecksumDiffers(out) /\ MetasUnderflow(out))
    => (bc.err # ErrNil /\ bc.chunk = NoChunk)

(***************************************************************************)
(* bufferedIterator: the per-block iterator as a state machine.  A lease   *)
(* is the number it got when it was taken from its pool; pool[kind][id]    *)
(* counts how often lease id was put back.  0 stands for nil.              *)
(***************************************************************************)
MaxRecords == 2

IterEntries ==
    {[t |-> -1, s |-> << >>], [t |-> 64, s |-> <<97, 98>>],
     [t |-> 0, s |-> <<97, 98, 99>>]}

\* What may follow the complete records of a block: nothing, a timestamp
\* alone, a line cut short, a line length of 2^30, a varint cut short.
Tails == {<< >>, <<2>>, <<2, 3, 97>>, <<2, 128, 128, 128, 128, 4>>, <<128>>}

RECURSIVE RecordStreams(_)
RecordStreams(n) ==
    IF n = 0 THEN {<< >>}
    ELSE LET shorter == RecordStreams(n - 1)
         IN shorter \cup {s \o EncodeEntry(e) : s \in shorter, e \in IterEntries}

Streams == {s \o tail : s \in RecordStreams(MaxRecords), tail \in Tails}

\* The bytes of a block holding stream s: as they are, compressed,
\* compressed with a damaged trailer, and with no valid framing at all.
Framings(s) ==
    {[enc |-> EncNone, b |-> s],
     [enc |-> EncGZIP, b |-> Compress(EncGZIP, s)],
     [enc |-> EncGZIP, b |-> <<GzipMagic>> \o s \o <<(Len(s) + 1) % 256>>],
     [enc |-> EncGZIP, b |-> <<0>> \o s]}

\* The capacities a buffer of the bytes pool may have, besides the size
\* asked for.
SizeClasses == {1, 4}

ErrNoLineBuffer == "could not get a line buffer"
Panic == "panic"

\* newBufferedIterator; strict tells whether this build's ReadVarint
\* reports a varint cut short as io.ErrUnexpectedEOF.
newBufferedIterator(enc, b, strict) ==
    [IdleIterator EXCEPT !.enc = enc, !.origBytes = b, !.strict = strict]

\* pool.Get / pool.Put on the pool of one kind
PoolGet(p, kind) == [p EXCEPT ![kind] = Append(@, 0)]
PoolPut(p, kind, id) ==
    IF id = 0 THEN p ELSE [p EXCEPT ![kind][id] = @ + 1]

\* The first lines of Next(): the readers are opened on the first call.
MustOpen(s) == ~s.closed /\ s.reader = 0

openReaderSi(s, p) ==
    IF MustOpen(s)
    THEN [s EXCEPT !.reader = Len(p.reader) + 1,
                   !.bufReader = Len(p.bufReader) + 1,
                   !.rd = Decompress(s.enc, s.origBytes),
                   !.pos = 0]
    ELSE s

openReaderPool(s, p) ==
    IF MustOpen(s) THEN PoolGet(PoolGet(p, "reader"), "bufReader") ELSE p

\* close()
closeSi(s) ==
    [s EXCEPT !.reader = 0, !.bufReader = 0, !.buf = 0, !.bufCap = 0,
              !.origBytes = << >>]

closePool(s, p) ==
    PoolPut(PoolPut(PoolPut(p, "reader", s.reader),
                    "bufReader", s.bufReader), "buf", s.buf)

\* Close(), as Next() and the caller call it
CloseSi(s) == IF s.closed THEN s ELSE closeSi([s EXCEPT !.closed = TRUE])
ClosePool(s, p) == IF s.closed THEN p ELSE closePool(s, p)

\* moveNext's line buffer, seen as a bug: the buffer that is replaced is not
\* put back.
lineBufferPoolLeaking(s, p, lineSize) ==
    IF s.buf = 0 \/ lineSize > s.bufCap THEN PoolGet(p, "buf") ELSE p

\* moveNext's line buffer: a new one when there is none or it is too small.
NeedsBuffer(s, lineSize) == s.buf = 0 \/ lineSize > s.bufCap

lineBufferPool(s, p, lineSize) ==
    IF NeedsBuffer(s, lineSize)
    THEN PoolGet(PoolPut(p, "buf", s.buf), "buf")
    ELSE p

lineBufferSi(s, p, lineSize, cap) ==
    IF NeedsBuffer(s, lineSize)
    THEN [s EXCEPT !.buf = Len(p.buf) + 1, !.bufCap = cap]
    ELSE s

\* What Next() leaves behind and returns.
NextResult(s, p, val) == [si |-> s, pool |-> p, val |-> val]

\* Next() when moveNext returned !ok with error e (ErrNil: none set).
NextFalse(s, p, e) ==
    NextResult(CloseSi([s EXCEPT !.err = IF e = ErrNil THEN @ ELSE e]),
               ClosePool(s, p), "false")

\* Next() from the read of the line on: s and p hold the line buffer.
NextRead(s, p, m) ==
    IF s.bufCap < m.bufSize THEN NextFalse(s, p, ErrNoLineBuffer)
    ELSE IF m.kind = "entry"
         THEN NextResult([s EXCEPT !.pos = @ + m.n, !.currTs = m.ts,
                                   !.currLine = m.line], p, "true")
    ELSE IF m.kind = "hang"
         THEN NextResult([s EXCEPT !.hung = TRUE], p, "never returns")
    ELSE NextFalse(s, p, m.err)

\* Next() after the readers are there; cap is the capacity of the buffer the
\* bytes pool hands out if it is asked.
NextMoved(s, p, m, cap) ==
    IF m.bufSize < 0 THEN NextFalse(s, p, m.err)
    ELSE NextRead(lineBufferSi(s, p, m.bufSize, cap),
                  lineBufferPool(s, p, m.bufSize), m)

NextOpened(s, p, cap) ==
    IF s.bufReader = 0
    THEN \* moveNext reads through a nil *bufio.Reader
         NextResult(s, p, Panic)
    ELSE NextMoved(s, p, moveNext(s.rd, s.pos, s.strict), cap)

IteratorNext(s, p, cap) ==
    NextOpened(openReaderSi(s, p), openReaderPool(s, p), cap)

\* The framing of the block's bytes is not one the pooled reader accepts.
BadFraming(s) ==
    /\ s.enc # EncNone
    /\ (Len(s.origBytes) < 2 \/ s.origBytes[1] # GzipMagic)

InitIter ==
    /\ c = NewMemChunk(EncNone, 2, 0)
    /\ appended = << >>
    /\ err = ErrNil
    /\ out = << >>
    /\ flipped = {}
    /\ bc = NotParsed
    /\ si \in {newBufferedIterator(f.enc, f.b, strict) :
                  f \in UNION {Framings(s) : s \in Streams},
                  strict \in BOOLEAN}
    /\ pool = NoLeases
    /\ ret = NoCall
    /\ firstClose = "none"
    /\ readers = NoReaders
    /\ it = NotOpen

\* What the first Close() returned, the one inside Next() included.
FirstCloseAfter(s, t) == IF ~s.closed /\ t.closed THEN t.err ELSE firstClose

\* si.Next()
IterNext ==
    /\ ~si.hung
    /\ \E cap \in SizeClasses \cup {0, 2, 3} :
          LET r == IteratorNext(si, pool, cap)
          IN /\ si' = r.si
             /\ pool' = r.pool
             /\ ret' = [op |-> "Next", val |-> r.val]
             /\ firstClose' = FirstCloseAfter(si, r.si)
    /\ UNCHANGED <<chunkVars, readers, it>>

\* si.Next() when GetReader panics on the framing: nothing is taken.
IterNextOpenPanics ==
    /\ ~si.hung
    /\ MustOpen(si)
    /\ BadFraming(si)
    /\ ret' = [op |-> "Next", val |-> Panic]
    /\ UNCHANGED <<si, pool, firstClose, readers, it>>
    /\ UNCHANGED <<chunkVars, readers, it>>

\* si.Close()
IterClose ==
    /\ ~si.hung
    /\ si' = CloseSi(si)
    /\ pool' = ClosePool(si, pool)
    /\ ret' = [op |-> "Close", val |-> si.err]
    /\ firstClose' = FirstCloseAfter(si, CloseSi(si))
    /\ UNCHANGED <<chunkVars, readers, it>>

NextIter ==
    \/ IterNext
    \/ IterNextOpenPanics
    \/ IterClose

SpecIter == InitIter /\ [][NextIter]_vars

(***************************************************************************)
(* C8: lease discipline of the per-block iterator.  Over any sequence of   *)
(* Next() and Close() calls, every reader, buffered reader and line buffer *)
(* the iterator took from a pool and no longer holds was put back exactly  *)
(* once, the ones it holds were not put back, it holds none once it is     *)
(* closed, and every Close() returns what the first one returned.          *)
(***************************************************************************)
LeaseKinds == {"reader", "bufReader", "buf"}

HeldLease(kind) ==
    IF kind = "reader" THEN si.reader
    ELSE IF kind = "bufReader" THEN si.bufReader
    ELSE si.buf

C8_LeaseDiscipline ==
    /\ \A kind \in LeaseKinds : \A id \in 1..Len(pool[kind]) :
          pool[kind][id] = IF id = HeldLease(kind) THEN 0 ELSE 1
    /\ si.closed => \A kind \in LeaseKinds : HeldLease(kind) = 0
    /\ ret.op = "Close" => ret.val = firstClose

\* Close() was called after an error ended an iteration in which the line
\* buffer had been replaced.
C8_Witness ==
    /\ ret.op = "Close"
    /\ firstClose = ErrLineTooLong
    /\ Len(pool.buf) >= 2
    /\ Len(pool.reader) = 1

(***************************************************************************)
(* C9: sticky termination of the per-block iterator.  Once an error is set *)
(* or the iterator is closed (by the caller, by exhaustion or by an        *)
(* error), a call of Next() returns false and leaves the error as it was.  *)
(***************************************************************************)
Terminated == si.closed \/ si.err # ErrNil

C9_StickyTermination ==
    [][(Terminated /\ (IterNext \/ IterNextOpenPanics))
          => (ret'.val = "false" /\ si'.err = si.err)]_vars

(***************************************************************************)
(* Goroutines that read a sealed chunk at the same time.  Each runs one of *)
(* Bytes(), Iterator() and SampleIterator(), one field access after the    *)
(* other; acc is the history of its accesses to the chunk: the location    *)
(* and whether it was written.                                             *)
(***************************************************************************)
Readers == {1, 2}
ReadOps == {"Bytes", "Iterator", "SampleIterator"}

BlockFields == {"b", "numEntries", "mint", "maxt", "offset", "uncompressedSize"}

RECURSIVE AppendAll(_, _)
\* The chunk after the entries es were appended to ch, one after the other.
AppendAll(ch, es) ==
    IF es = << >> THEN ch
    ELSE AppendAll(ChunkAppend(ch, Head(es)).c, Tail(es))

\* The entries of the chunks that are read.
SealedEntries ==
    {<< >>,
     <<[t |-> 0, s |-> <<97, 98>>]>>,
     <<[t |-> -1, s |-> <<97, 98>>], [t |-> 64, s |-> <<97, 98>>]>>,
     <<[t |-> -1, s |-> << >>], [t |-> 0, s |-> <<97, 98>>],
       [t |-> 64, s |-> <<97, 98>>]>>}

\* A chunk is sealed by Close(), by Bytes(), or comes from NewByteChunk.
SealedChunks ==
    LET closed == {cut(AppendAll(NewMemChunk(enc, 2, 0), es)) :
                      enc \in Encodings, es \in SealedEntries}
    IN closed
       \cup {ChunkBytes(ch).c : ch \in closed}
       \cup {NewByteChunk(ChunkBytes(ch).out, 2, 0).chunk : ch \in closed}

\* The accesses of `for _, b := range c.blocks` to block i: b is a copy of
\* every field.
ReadBlock(i) == {[loc |-> <<i, f>>, write |-> FALSE] : f \in BlockFields}
ReadOf(name) == {[loc |-> <<0, name>>, write |-> FALSE]}
WriteOffset(i) == {[loc |-> <<i, "offset">>, write |-> TRUE]}

NewReader(op) == [op |-> op, pc |-> "start", i |-> 1, offset |-> 0, acc |-> {}]

InitReaders ==
    /\ c \in SealedChunks
    /\ appended = << >>
    /\ err = ErrNil
    /\ out = << >>
    /\ flipped = {}
    /\ bc = NotParsed
    /\ IterIdle
    /\ readers \in [Readers -> {NewReader(op) : op \in ReadOps}]
    /\ it = NotOpen

\* Bytes(): c.head != nil, cut() returns at once since the head is empty,
\* and the header is written from c.format and c.encoding.
BytesHeader(p) ==
    /\ readers[p].op = "Bytes"
    /\ readers[p].pc = "start"
    /\ readers' = [readers EXCEPT
          ![p].pc = "blocks",
          ![p].offset = Len(ChunkHeader(c)),
          ![p].acc = @ \cup ReadOf("head") \cup ReadOf("format")
                       \cup ReadOf("encoding")]
    /\ UNCHANGED <<chunkVars, iterVars, it>>

\* Bytes(): one iteration of `for i, b := range c.blocks`, which stores the
\* offset in c.blocks[i].
BytesBlock(p) ==
    /\ readers[p].op = "Bytes"
    /\ readers[p].pc = "blocks"
    /\ readers[p].i <= Len(c.blocks)
    /\ c' = [c EXCEPT !.blocks[readers[p].i].offset = readers[p].offset]
    /\ readers' = [readers EXCEPT
          ![p].i = @ + 1,
          ![p].offset = @ + Len(c.blocks[readers[p].i].b) + 4,
          ![p].acc = @ \cup ReadOf("blocks") \cup ReadBlock(readers[p].i)
                       \cup WriteOffset(readers[p].i)]
    /\ UNCHANGED <<appended, err, out, flipped, bc, iterVars, it>>

\* Bytes(): the metadata of every block is written from c.blocks.
BytesMetas(p) ==
    /\ readers[p].op = "Bytes"
    /\ readers[p].pc = "blocks"
    /\ readers[p].i > Len(c.blocks)
    /\ readers' = [readers EXCEPT
          ![p].pc = "done",
          ![p].acc = @ \cup ReadOf("blocks")
                       \cup UNION {ReadBlock(k) : k \in 1..Len(c.blocks)}]
    /\ UNCHANGED <<chunkVars, iterVars, it>>

\* Iterator() and SampleIterator(): one iteration of
\* `for _, b := range c.blocks`.
IteratorBlock(p) ==
    /\ readers[p].op \in {"Iterator", "SampleIterator"}
    /\ readers[p].pc = "start"
    /\ readers[p].i <= Len(c.blocks)
    /\ readers' = [readers EXCEPT
          ![p].i = @ + 1,
          ![p].acc = @ \cup ReadOf("blocks") \cup ReadOf("encoding")
                       \cup ReadBlock(readers[p].i)]
    /\ UNCHANGED <<chunkVars, iterVars, it>>

\* Iterator() and SampleIterator(): c.head.isEmpty() after the blocks.
IteratorHead(p) ==
    /\ readers[p].op \in {"Iterator", "SampleIterator"}
    /\ readers[p].pc = "start"
    /\ readers[p].i > Len(c.blocks)
    /\ readers' = [readers EXCEPT
          ![p].pc = "done",
          ![p].acc = @ \cup ReadOf("blocks") \cup ReadOf("head")]
    /\ UNCHANGED <<chunkVars, iterVars, it>>

NextReaders ==
    \/ \E p \in Readers : BytesHeader(p)
    \/ \E p \in Readers : BytesBlock(p)
    \/ \E p \in Readers : BytesMetas(p)
    \/ \E p \in Readers : IteratorBlock(p)
    \/ \E p \in Readers : IteratorHead(p)

SpecReaders == InitReaders /\ [][NextReaders]_vars

(***************************************************************************)
(* C12.  Reads of a sealed chunk are conflict-free: whatever the           *)
(* interleaving of Bytes(), Iterator() and SampleIterator() on a chunk     *)
(* with an empty head, none of them writes a field of the chunk or of its  *)
(* blocks, and no two of them access the same field with one of them       *)
(* writing it.                                                             *)
(***************************************************************************)
Conflict(a, b) == a.loc = b.loc /\ (a.write \/ b.write)

C12_SealedReadsConflictFree ==
    /\ \A p \in DOMAIN readers : \A a \in readers[p].acc : ~a.write
    /\ \A p, q \in DOMAIN readers :
          p # q => \A a \in readers[p].acc, b \in readers[q].acc :
                      ~Conflict(a, b)

(***************************************************************************)
(* Chunks of both formats, serialized, parsed and serialized again.  A     *)
(* chunk of format V1 is what NewByteChunk returns for V1 bytes; the bytes *)
(* of the empty V1 chunk are written down here, every other V1 chunk comes *)
(* from appending to it.                                                   *)
(***************************************************************************)
EmptyChunkV1 ==
    BE32(magicNumber) \o <<chunkFormatV1>> \o PutUvarint(0)
    \o BE32(Checksum(PutUvarint(0))) \o BE64(5)

InitVersions ==
    /\ c \in {NewMemChunk(enc, bs, 0) : enc \in Encodings, bs \in BlockSizes}
             \cup {NewByteChunk(EmptyChunkV1, bs, 0).chunk : bs \in BlockSizes}
    /\ appended = << >>
    /\ err = ErrNil
    /\ out = << >>
    /\ flipped = {}
    /\ bc = NotParsed
    /\ IterIdle
    /\ readers = NoReaders
    /\ it = NotOpen

\* Bytes() of the chunk NewByteChunk(out) returned, which is the chunk from
\* then on.
Reserialize ==
    /\ bc # NotParsed
    /\ bc.err = ErrNil
    /\ c' = ChunkBytes(bc.chunk).c
    /\ out' = ChunkBytes(bc.chunk).out
    /\ err' = ErrNil
    /\ flipped' = {}
    /\ bc' = NotParsed
    /\ UNCHANGED <<appended, si, pool, ret, firstClose, readers, it>>

NextVersions ==
    \/ \E e \in Entries : AppendEntry(e)
    \/ Close
    \/ Bytes
    \/ Parse
    \/ Reserialize

SpecVersions == InitVersions /\ [][NextVersions]_vars

(***************************************************************************)
(* C13.  Byte-exact re-serialization across versions: NewByteChunk of the  *)
(* bytes of a chunk of format V1 or V2 succeeds and keeps the format (V1   *)
(* with GZIP, V2 with the encoding byte of the bytes), Bytes() of the      *)
(* parsed chunk returns the very bytes that were parsed, and Bytes()       *)
(* called again with no Append in between returns the same bytes.          *)
(***************************************************************************)
\* The format and the encoding the header of b states.
FormatOf(b) == b[5]
EncodingOf(b) == IF b[5] = chunkFormatV1 THEN EncGZIP ELSE b[6]

C13_ByteExactReserialization ==
    [][/\ Parse => /\ bc'.err = ErrNil
                   /\ bc'.chunk.format = FormatOf(out)
                   /\ bc'.chunk.encoding = EncodingOf(out)
       /\ Reserialize => out' = out
       /\ (Bytes /\ out # << >>) => out' = out]_vars

\* A V1 chunk of two blocks or more went through NewByteChunk and Bytes():
\* its blocks hold lines and have the uncompressed size 0 of parsed blocks.
C13_Witness ==
    /\ c.format = chunkFormatV1
    /\ out # << >>
    /\ Len(c.blocks) >= 2
    /\ \A i \in 1..Len(appended) : appended[i].s # << >>
    /\ \A k \in 1..Len(c.blocks) : c.blocks[k].uncompressedSize = 0

(***************************************************************************)
(* C14.  Head buffer invariant: head.size is the sum of the lengths of the *)
(* head's lines; a non-empty head has mint = the smallest and maxt = the   *)
(* largest timestamp of its entries, whatever their sign; an empty head    *)
(* has mint = 0; and every block cut has mint = the smallest and maxt =    *)
(* the largest timestamp of the entries it holds.                          *)
(***************************************************************************)
LineLengths(entries) == SumSeq([i \in 1..Len(entries) |-> Len(entries[i].s)])

C14_HeadInvariant ==
    /\ c.head.size = LineLengths(c.head.entries)
    /\ ~isEmpty(c.head) =>
          /\ c.head.mint = MinOf(TimesOf(c.head.entries))
          /\ c.head.maxt = MaxOf(TimesOf(c.head.entries))
    /\ isEmpty(c.head) => c.head.mint = 0
    /\ \A k \in 1..Len(c.blocks) :
          /\ c.blocks[k].mint = MinOf(TimesOf(EntriesOfBlock(k)))
          /\ c.blocks[k].maxt = MaxOf(TimesOf(EntriesOfBlock(k)))

(***************************************************************************)
(* C15.  Cut on block size: an Append that succeeds and brings head.size   *)
(* to blockSize or more cuts the head into exactly one new block that      *)
(* holds every entry of the head (the new one included) with the head's    *)
(* size as its uncompressed size, and leaves the head empty; an Append     *)
(* that leaves head.size below blockSize adds no block.  After every       *)
(* successful Append head.size < blockSize.                                *)
(***************************************************************************)
\* The head of c with e added became the newest block, the only new one.
HeadWasCut(e) ==
    /\ Len(c'.blocks) = Len(c.blocks) + 1
    /\ SubSeq(c'.blocks, 1, Len(c.blocks)) = c.blocks
    /\ Last(c'.blocks).numEntries = Len(c.head.entries) + 1
    /\ Last(c'.blocks).uncompressedSize = c.head.size + Len(e.s)
    /\ Last(c'.blocks).b
       = serialise([entries |-> Append(c.head.entries, e), size |-> 0,
                    mint |-> 0, maxt |-> 0], c.encoding)
    /\ isEmpty(c'.head)
    /\ c'.head.size = 0

C15_CutOnBlockSize ==
    [][\A e \in Entries :
          (AppendEntry(e) /\ err' = ErrNil)
          => /\ IF c.head.size + Len(e.s) >= c.blockSize
                THEN HeadWasCut(e)
                ELSE /\ c'.blocks = c.blocks
                     /\ c'.head.entries = Append(c.head.entries, e)
             /\ c'.head.size < c'.blockSize]_vars

\* An Append has cut a head of two entries or more: the newest block is as
\* large as blockSize, which a block cut by Close() or Bytes() never is.
C15_Witness ==
    /\ err = ErrNil
    /\ out = << >>
    /\ isEmpty(c.head)
    /\ Len(c.blocks) >= 2
    /\ Last(c.blocks).numEntries >= 2
    /\ Last(c.blocks).uncompressedSize >= c.blockSize

(***************************************************************************)
(* C16.  cutBlockSize accounting: in the chunk being built and in the      *)
(* chunk NewByteChunk returned, blocks with a bad checksum skipped,        *)
(* cutBlockSize is the sum of len(b) over the blocks of the chunk, and     *)
(* CompressedSize() is cutBlockSize + head.size.                           *)
(***************************************************************************)
Accounted(ch) ==
    /\ ch.cutBlockSize = SumSeq([k \in 1..Len(ch.blocks) |-> Len(ch.blocks[k].b)])
    /\ CompressedSize(ch) = ch.cutBlockSize + ch.head.size

C16_CutBlockSizeAccounting ==
    /\ Accounted(c)
    /\ (Parsed /\ bc.err = ErrNil) => Accounted(bc.chunk)

\* NewByteChunk skipped a damaged block and kept another; the chunk that
\* was serialized had a block and a head when Bytes() was called.
C16_Witness ==
    /\ Parsed
    /\ bc.err = ErrNil
    /\ OnlyBlocksDamaged
    /\ 0 < bc.chunk.cutBlockSize
    /\ bc.chunk.cutBlockSize < c.cutBlockSize
    /\ Len(bc.chunk.blocks) < Len(c.blocks)

(***************************************************************************)
(* C17.  Entry-count conservation: Size() is the number of Appends that    *)
(* succeeded; Close, Bytes (hence cut) and an Append that fails leave      *)
(* Size() and UncompressedSize() as they were; and a cut of an empty head  *)
(* (so a repeated Close or Bytes) adds no block.                           *)
(***************************************************************************)
SizesKept ==
    /\ Size(c') = Size(c)
    /\ UncompressedSize(c') = UncompressedSize(c)

C17_EntryCountConservation ==
    [][/\ Size(c) = Len(appended)
       /\ Size(c') = Len(appended')
       /\ (Close \/ Bytes) => SizesKept
       /\ ((Close \/ Bytes) /\ isEmpty(c.head))
             => Len(c'.blocks) = Len(c.blocks)
       /\ \A e \in Entries :
             (AppendEntry(e) /\ err' # ErrNil) => (SizesKept /\ c' = c)]_vars

\* An Append failed on a chunk that holds a block and a head.
C17_Witness ==
    /\ err = ErrOutOfOrder
    /\ Len(c.blocks) >= 1
    /\ ~isEmpty(c.head)
    /\ Size(c) = 2
    /\ UncompressedSize(c) > 0

(***************************************************************************)
(* What the per-block iterator has before it when Next() is called: the    *)
(* decompressed stream from its position on.                               *)
(***************************************************************************)
StreamOf(s) == IF MustOpen(s) THEN Decompress(s.enc, s.origBytes) ELSE s.rd

Ahead == SubSeq(StreamOf(si).data, si.pos + 1, Len(StreamOf(si).data))

IsPrefix(p, s) == Len(p) <= Len(s) /\ SubSeq(s, 1, Len(p)) = p

\* b starts with a timestamp and a line length below the limit, and ends
\* before it holds that many bytes of the line.
LineCutShort(b) ==
    LET ts == Varint(b)
        l == Uvarint(SubSeq(b, ts.n + 1, Len(b)))
    IN /\ ts.n > 0
       /\ l.n > 0
       /\ l.v < maxLineLength
       /\ Len(b) - ts.n - l.n < l.v

(***************************************************************************)
(* C18.  A truncated line is an error, not a hang: when the stream ends    *)
(* after a line length was decoded and before that many bytes of the line  *)
(* are there, Next() returns, returns false, and Error() is not nil.       *)
(***************************************************************************)
C18_TruncatedLineIsError ==
    [][(IterNext /\ ~si.closed /\ LineCutShort(Ahead))
          => (ret'.val = "false" /\ si'.err # ErrNil)]_vars

(***************************************************************************)
(* C19.  The per-block iterator yields only entries present in the stream: *)
(* when Next() returns true the entry it yields is the record the stream   *)
(* holds at the iterator's position; a complete record there is yielded;   *)
(* at the end of the stream Next() returns false with a nil error; and a   *)
(* stream that ends right after a timestamp yields no entry for it.        *)
(***************************************************************************)
Current(s) == [t |-> s.currTs, s |-> s.currLine]

C19_OnlyEntriesPresent ==
    [][(IterNext /\ ~si.closed) =>
          /\ ret'.val = "true" => IsPrefix(EncodeEntry(Current(si')), Ahead)
          /\ \A e \in IterEntries :
                (IsPrefix(EncodeEntry(e), Ahead) /\ si'.err # ErrNoLineBuffer)
                => (ret'.val = "true" /\ Current(si') = e)
          /\ (Ahead = << >> /\ ~StreamOf(si).fails)
                => (ret'.val = "false" /\ si'.err = ErrNil)]_vars

(***************************************************************************)
(* The iterator MemChunk.Iterator returns, step by step, while the chunk   *)
(* it was made from goes on being written.  It holds its sub-iterators in  *)
(* subs, k being the one it reads from.  A sub-iterator over a block is    *)
(* lazy: it holds the block's bytes b (encBlock copies the block, and the  *)
(* bytes of a block are never written again) and the position pos it has   *)
(* read to.  A sub-iterator over a stream holds its entries.               *)
(***************************************************************************)
SnapWindows == {[mint |-> -2, maxt |-> 65], [mint |-> 0, maxt |-> 64]}
SnapPipelines == {{}, {<< >>}}

StreamSub(entries, head) ==
    [kind |-> "stream", head |-> head, enc |-> EncNone, b |-> << >>,
     pos |-> 0, drop |-> {}, entries |-> entries]

\* encBlock.Iterator
BlockSub(enc, blk, drop) ==
    IF Len(blk.b) = 0 THEN StreamSub(<< >>, FALSE)
    ELSE [kind |-> "block", head |-> FALSE, enc |-> enc, b |-> blk.b,
          pos |-> 0, drop |-> drop, entries |-> << >>]

\* The sub-iterators of a FORWARD iteration: the blocks that intersect the
\* window, then the head's entries, copied by headBlock.iterator.
ForwardSubs(ch, mint, maxt, drop) ==
    LET hit == SelectSeq(ch.blocks,
                         LAMBDA b : ~(maxt < b.mint \/ b.maxt < mint))
    IN [i \in 1..Len(hit) |-> BlockSub(ch.encoding, hit[i], drop)]
       \o (IF ~isEmpty(ch.head)
           THEN <<StreamSub(headIterator(ch.head, FORWARD, mint, maxt,
                                         drop).entries, TRUE)>>
           ELSE << >>)

\* The sub-iterators of a BACKWARD iteration: each is drained, clipped and
\* reversed when Iterator() is called, and their order is reversed.
BackwardSubs(ch, mint, maxt, drop) ==
    LET its == SubIterators(ch, mint, maxt, BACKWARD, drop)
    IN Reverse([i \in 1..Len(its) |->
           StreamSub(EntryReversedIter(
                         TimeRangedIterator(its[i], mint, maxt)).entries,
                     FALSE)])

\* The entries a stream sub-iterator reads, seen as a bug: the head's
\* sub-iterator reads the head as it is now, not the copy it made.
StreamEntriesAliased(sub, ch) ==
    IF sub.head THEN ch.head.entries ELSE sub.entries

\* The entries a stream sub-iterator reads: its own.
StreamEntries(sub, ch) == sub.entries

SubEnd(sub) == [ok |-> FALSE, entry |-> [t |-> 0, s |-> << >>], sub |-> sub]

\* Next() of a sub-iterator over a block, m being what moveNext returned.
BlockSubMoved(sub, m) ==
    IF m.kind = "entry"
    THEN [ok |-> TRUE, entry |-> [t |-> m.ts, s |-> m.line],
          sub |-> [sub EXCEPT !.pos = @ + m.n]]
    ELSE SubEnd(sub)

\* Next() of one sub-iterator.
SubNext(sub, ch) ==
    IF sub.kind = "block"
    THEN BlockSubMoved(sub, moveNext(Decompress(sub.enc, sub.b), sub.pos, TRUE))
    ELSE IF sub.pos < Len(StreamEntries(sub, ch))
    THEN [ok |-> TRUE, entry |-> StreamEntries(sub, ch)[sub.pos + 1],
          sub |-> [sub EXCEPT !.pos = @ + 1]]
    ELSE SubEnd(sub)

\* Whether the iterator passes on the entry e that sub yielded: a block's
\* pipeline drops lines, a FORWARD iteration is clipped to the window.
Passes(i, sub, e) ==
    /\ e.s \notin sub.drop
    /\ i.direction = FORWARD => (i.mint <= e.t /\ e.t <= i.maxt)

RECURSIVE ItNextEntry(_, _)

\* Next() of the iterator i after its current sub-iterator returned r.
ItAfterSub(i, ch, r) ==
    IF ~r.ok THEN ItNextEntry([i EXCEPT !.k = @ + 1], ch)
    ELSE IF Passes(i, r.sub, r.entry)
    THEN [i EXCEPT !.subs[i.k] = r.sub, !.yielded = Append(@, r.entry)]
    ELSE ItNextEntry([i EXCEPT !.subs[i.k] = r.sub], ch)

\* Next() of the iterator i: the next entry of the current sub-iterator that
\* passes, the next sub-iterator when it has no more.
ItNextEntry(i, ch) ==
    IF i.k > Len(i.subs) THEN [i EXCEPT !.done = TRUE]
    ELSE ItAfterSub(i, ch, SubNext(i.subs[i.k], ch))

InitSnapshot ==
    /\ c \in {NewMemChunk(enc, 3, 0) : enc \in Encodings}
    /\ appended = << >>
    /\ err = ErrNil
    /\ out = << >>
    /\ flipped = {}
    /\ bc = NotParsed
    /\ IterIdle
    /\ readers = NoReaders
    /\ it = NotOpen

\* c.Iterator(ctx, mint, maxt, direction, lbs, pipeline); expected, atOpen
\* are history: what the chunk held when it was called.
OpenIterator(w, direction, drop) ==
    /\ ~it.open
    /\ it' = [open |-> TRUE,
              mint |-> w.mint, maxt |-> w.maxt, direction |-> direction,
              subs |-> IF direction = FORWARD
                       THEN ForwardSubs(c, w.mint, w.maxt, drop)
                       ELSE BackwardSubs(c, w.mint, w.maxt, drop),
              k |-> 1, yielded |-> << >>, done |-> FALSE,
              expected |-> Iterator(c, w.mint, w.maxt, direction, drop).entries,
              atOpen |-> [blocks |-> Len(c.blocks),
                          head |-> Len(c.head.entries)]]
    /\ UNCHANGED <<chunkVars, iterVars, readers>>

\* it.Next()
ItNext ==
    /\ it.open
    /\ ~it.done
    /\ it' = ItNextEntry(it, c)
    /\ UNCHANGED <<chunkVars, iterVars, readers>>

\* The chunk is written for as long as the iterator is not exhausted.
Exhausted == it.open /\ it.done

NextSnapshot ==
    \/ \E e \in Entries : ~Exhausted /\ AppendEntry(e)
    \/ ~Exhausted /\ Close
    \/ ~Exhausted /\ Bytes
    \/ \E w \in SnapWindows, direction \in {FORWARD, BACKWARD},
          drop \in SnapPipelines : OpenIterator(w, direction, drop)
    \/ ItNext

SpecSnapshot == InitSnapshot /\ [][NextSnapshot]_vars

(***************************************************************************)
(* C20.  Iterator snapshot: what an iterator yields is what the chunk held *)
(* for its window, direction and pipeline when Iterator() was called;      *)
(* Append, Close and Bytes calls (and the cuts they make) between its      *)
(* Next() calls add, remove, reorder and alter nothing.                    *)
(***************************************************************************)
C20_IteratorSnapshot ==
    it.open =>
        /\ IsPrefix(it.yielded, it.expected)
        /\ it.done => it.yielded = it.expected

\* A FORWARD iterator made over a block and a non-empty head has yielded
\* the entries of both and is exhausted, after the head it was made over
\* was cut and another entry was appended.
C20_Witness ==
    /\ it.open
    /\ it.done
    /\ it.direction = FORWARD
    /\ it.atOpen.blocks >= 1
    /\ it.atOpen.head >= 1
    /\ Len(it.yielded) >= 2
    /\ Len(c.blocks) > it.atOpen.blocks
    /\ Size(c) > Len(it.yielded)


(***************************************************************************)
(* C21.  Window completeness: for every chunk state, window            *)
(* [from, through] and pipeline, Iterator(FORWARD) yields every stored     *)
(* entry the pipeline keeps whose timestamp t satisfies                    *)
(* from <= t < through, and yields no entry whose timestamp is outside     *)
(* [from, through].                                                        *)
(***************************************************************************)
Occurrences(e, s) == Cardinality({i \in 1..Len(s) : s[i] = e})

InWindow(entries, from, through) ==
    SelectSeq(entries, LAMBDA e : from <= e.t /\ e.t < through)

C21_WindowCompleteness ==
    Untouched =>
        \A from, through \in WindowTimes : \A drop \in Pipelines :
            LET fwd == Iterator(c, from, through, FORWARD, drop).entries
                due == InWindow(Keep(appended, drop), from, through)
            IN /\ \A i \in 1..Len(due) :
                      Occurrences(due[i], fwd) >= Occurrences(due[i], due)
               /\ \A i \in 1..Len(fwd) :
                      from <= fwd[i].t /\ fwd[i].t <= through

(***************************************************************************)
(* C22.  Parsing is total: for every input, NewByteChunk returns a chunk   *)
(* or an error value; it never reads outside the bounds of the input,      *)
(* whatever the trailing metasOffset and the offsets and lengths of the    *)
(* block metadata are.                                                     *)
(***************************************************************************)
C22_ParsingTotal ==
    bc # NotParsed => /\ bc.err # ErrPanic
                      /\ bc.err = ErrNil <=> bc.chunk # NoChunk

(***************************************************************************)
(* A chunk with a target size, filled the way its callers fill it: an     *)
(* entry is appended only when SpaceFor has just accepted it.  SpaceFor is *)
(* an operator of the chunk record alone; it changes nothing.              *)
(***************************************************************************)
TargetSizes == {1, 3, 6, 12}

InitTarget ==
    /\ c \in {NewMemChunk(enc, bs, ts) :
                 enc \in Encodings, bs \in BlockSizes, ts \in TargetSizes}
    /\ appended = << >>
    /\ err = ErrNil
    /\ out = << >>
    /\ flipped = {}
    /\ bc = NotParsed
    /\ IterIdle
    /\ readers = NoReaders
    /\ it = NotOpen

NextTarget ==
    \/ \E e \in Entries : SpaceFor(c, e) /\ AppendEntry(e)
    \/ Close

SpecTarget == InitTarget /\ [][NextTarget]_vars

(***************************************************************************)
(* C23.  SpaceFor keeps the chunk under its target: with targetSize > 0    *)
(* and every Append(e) issued only when SpaceFor(e) has just returned      *)
(* true, CompressedSize() < targetSize after every Append, those that cut  *)
(* a block included, and after Close.                                      *)
(***************************************************************************)
C23_SpaceForKeepsUnderTarget ==
    c.targetSize > 0 => CompressedSize(c) < c.targetSize

=============================================================================
